---- MODULE Spec2Model ----
(***************************************************************************)
(* State-machine model of date_analytics.py: the single-pass dashboard     *)
(* script (load, snapshot, null check, score, rank, country validation,    *)
(* clustering, forecast), the currency converter in the sidebar and the    *)
(* generate_pdf report routine.                                            *)
(*                                                                         *)
(* Encodings.  A text is a sequence of tokens, the token " " being one     *)
(* blank, so that str.strip() is a computation.  A nullable number is      *)
(* <<>> (NaN / None) or <<v>>.  Percentages are integers; a Score is kept  *)
(* in tenths of a percent (weights 7 and 3).  Money amounts are          *)
(* in cents and exchange rates in tenths; a quotient of two floats is  *)
(* kept as an exact fraction [num, den].                                   *)
(***************************************************************************)
EXTENDS Integers, Sequences, FiniteSets, TLC

VARIABLES
    csv,                \* imoveis.csv on disk: NoFile or [columns, rows]
    pc,                 \* position of the script run
    imoveis,            \* the loaded table [columns, rows]
    shown,              \* st.error / st.warning messages of the main page
    exception,          \* the uncaught exception that ended the run, or <<>>
    ano_mais_recente,   \* nullable number
    dados_recentes,     \* the Snapshot: sequence of index labels of imoveis
    Score,              \* the Score column of dados_recentes: index -> nullable
    pais_ideal,         \* text
    pib_pais,           \* nullable number
    pop_pais,           \* nullable number
    invalid_countries,  \* sequence of texts
    Cluster,            \* the rows of dados_recentes that hold a Cluster id
    forecast,           \* [test |-> set of held-out index labels] or <<>>
    moeda_origem,       \* sidebar selectbox
    moeda_destino,      \* sidebar selectbox
    valor,              \* sidebar number_input, in cents
    response,           \* what the last requests.get / response.json() gave
    taxa,               \* fraction returned by the last get_exchange_rate
    valor_convertido,   \* fraction, in cents
    written,            \* the text of the last st.sidebar.write, in cents
    sidebar_errors,     \* number of st.sidebar.error notices of the last click
    lookups,            \* requests.get calls made so far
    clicks,             \* Converter clicks handled so far
    n_columns,          \* columns of dataframe.describe()
    column,             \* columns of the summary already drawn
    y_position,         \* generate_pdf's vertical cursor
    page,               \* current page of the canvas
    drawn,              \* set of [what, page, y] drawing calls
    pdf_pc              \* position inside generate_pdf

vars == << csv, pc, imoveis, shown, exception, ano_mais_recente, dados_recentes,
           Score, pais_ideal, pib_pais, pop_pais, invalid_countries, Cluster,
           forecast, moeda_origem, moeda_destino, valor, response, taxa,
           valor_convertido, written, sidebar_errors, lookups, clicks,
           n_columns, column, y_position, page, drawn, pdf_pc >>

pipeline_vars == << csv, pc, imoveis, shown, exception, ano_mais_recente,
                    dados_recentes, Score, pais_ideal, pib_pais, pop_pais,
                    invalid_countries, Cluster, forecast >>

converter_vars == << moeda_origem, moeda_destino, valor, response, taxa,
                     valor_convertido, written, sidebar_errors, lookups, clicks >>

pdf_vars == << n_columns, column, y_position, page, drawn, pdf_pc >>

----------------------------------------------------------------------------
(* Bounds of the model *)

MaxRows == 3

MaxClicks == 2

MaxSummaryColumns == 70

----------------------------------------------------------------------------
(* Texts and nullable numbers *)

NaN == <<>>

IsNull(x) == x = <<>>

Val(x) == x[1]

RECURSIVE strip(_)
(* str.strip(): drop the leading and the trailing blanks *)
strip(s) ==
    IF s = <<>> THEN s
    ELSE IF Head(s) = " " THEN strip(Tail(s))
    ELSE IF s[Len(s)] = " " THEN strip(SubSeq(s, 1, Len(s) - 1))
    ELSE s

Range(s) == { s[i] : i \in DOMAIN s }

----------------------------------------------------------------------------
(* The table *)

target_columns ==
    << <<"Country">>, <<"Year">>, <<"GDP Growth (%)">>, <<"Population Growth (%)">> >>

NoFile == [columns |-> << <<"(no file)">> >>, rows |-> <<>>]

(* position of the column labelled `name`; 0 when there is none (KeyError) *)
ColumnIndex(table, name) ==
    IF \E j \in DOMAIN table.columns : table.columns[j] = name
    THEN CHOOSE j \in DOMAIN table.columns :
            /\ table.columns[j] = name
            /\ \A k \in 1..(j - 1) : table.columns[k] # name
    ELSE 0

(* table.loc[i, name] *)
Cell(table, i, name) == table.rows[i][ColumnIndex(table, name)]

Index(table) == DOMAIN table.rows

(* the index labels 1..n in order *)
Labels(n) == [i \in 1..n |-> i]

Message(kind, text, list) == [kind |-> kind, text |-> text, list |-> list]

----------------------------------------------------------------------------
(* Loading: lines 25-38 *)

ColumnsAsRead(columns) == columns

(* imoveis.columns.str.strip() *)
StripColumns(columns) == [j \in DOMAIN columns |-> strip(columns[j])]

(* [col for col in target_columns if col not in imoveis.columns] *)
missing_cols(columns) ==
    SelectSeq(target_columns, LAMBDA col : col \notin Range(columns))

Load ==
    /\ pc = "load"
    /\ IF csv = NoFile
       THEN \* pd.read_csv raises; the except branch reports and stops
            /\ shown' = Append(shown, Message("error", "Erro ao carregar os dados", <<>>))
            /\ pc' = "stopped"
            /\ UNCHANGED imoveis
       ELSE LET table == [columns |-> StripColumns(csv.columns), rows |-> csv.rows]
                missing == missing_cols(table.columns)
            IN  /\ imoveis' = table
                /\ IF missing # <<>>
                   THEN /\ shown' = Append(shown,
                                Message("error", "colunas ausentes no dataset", missing))
                        /\ pc' = "stopped"
                   ELSE /\ pc' = "snapshot"
                        /\ UNCHANGED shown
    /\ UNCHANGED << csv, exception, ano_mais_recente, dados_recentes, Score,
                    pais_ideal, pib_pais, pop_pais, invalid_countries, Cluster,
                    forecast >>
    /\ UNCHANGED << converter_vars, pdf_vars >>

----------------------------------------------------------------------------
(* Snapshot and null check: lines 41-47 *)

RECURSIVE SeriesMaxFrom(_, _, _)
SeriesMaxFrom(table, k, best) ==
    IF k > Len(table.rows) THEN best
    ELSE LET y == Cell(table, k, <<"Year">>)
         IN  SeriesMaxFrom(table, k + 1,
                IF IsNull(y) THEN best
                ELSE IF IsNull(best) \/ Val(y) > Val(best) THEN y
                ELSE best)

(* imoveis["Year"].max(): NaN entries are skipped, NaN when nothing is left *)
YearMax(table) == SeriesMaxFrom(table, 1, NaN)

(* imoveis[imoveis["Year"] == ano]: a comparison with NaN is False *)
FilterByYear(table, ano) ==
    SelectSeq(Labels(Len(table.rows)),
              LAMBDA i : LET y == Cell(table, i, <<"Year">>)
                         IN  ~IsNull(y) /\ ~IsNull(ano) /\ Val(y) = Val(ano))

SelectSnapshot ==
    /\ pc = "snapshot"
    /\ ano_mais_recente' = YearMax(imoveis)
    /\ dados_recentes' = FilterByYear(imoveis, YearMax(imoveis))
    /\ pc' = "nulls"
    /\ UNCHANGED << csv, imoveis, shown, exception, Score, pais_ideal, pib_pais,
                    pop_pais, invalid_countries, Cluster, forecast >>
    /\ UNCHANGED << converter_vars, pdf_vars >>

AnyNullGdpOnly(table, frame) ==
    \E k \in DOMAIN frame : IsNull(Cell(table, frame[k], <<"GDP Growth (%)">>))

(* frame[["GDP Growth (%)", "Population Growth (%)"]].isnull().values.any() *)
AnyNull(table, frame) ==
    \E k \in DOMAIN frame :
        \/ IsNull(Cell(table, frame[k], <<"GDP Growth (%)">>))
        \/ IsNull(Cell(table, frame[k], <<"Population Growth (%)">>))

CheckNulls ==
    /\ pc = "nulls"
    /\ IF AnyNull(imoveis, dados_recentes)
       THEN /\ shown' = Append(shown,
                    Message("warning", "valores nulos nas colunas usadas", <<>>))
            /\ pc' = "stopped"
       ELSE /\ pc' = "score"
            /\ UNCHANGED shown
    /\ UNCHANGED << csv, imoveis, exception, ano_mais_recente, dados_recentes,
                    Score, pais_ideal, pib_pais, pop_pais, invalid_countries,
                    Cluster, forecast >>
    /\ UNCHANGED << converter_vars, pdf_vars >>

----------------------------------------------------------------------------
(* Score and ranking: lines 50-59 *)

(* pesos = {"GDP Growth (%)": 0.7, "Population Growth (%)": 0.3}, in tenths *)
pesos == [gdp |-> 7, pop |-> 3]

WeightedSumSwapped(gdp, pop) ==
    IF IsNull(gdp) \/ IsNull(pop) THEN NaN
    ELSE << Val(gdp) * pesos.pop + Val(pop) * pesos.gdp >>

(* GDP * pesos[GDP] + Population * pesos[Population], in tenths; NaN
   propagates through the arithmetic *)
WeightedSum(gdp, pop) ==
    IF IsNull(gdp) \/ IsNull(pop) THEN NaN
    ELSE << Val(gdp) * pesos.gdp + Val(pop) * pesos.pop >>

ComputeScore ==
    /\ pc = "score"
    /\ Score' = [i \in Range(dados_recentes) |->
                    WeightedSum(Cell(imoveis, i, <<"GDP Growth (%)">>),
                                Cell(imoveis, i, <<"Population Growth (%)">>))]
    /\ pc' = "rank"
    /\ UNCHANGED << csv, imoveis, shown, exception, ano_mais_recente,
                    dados_recentes, pais_ideal, pib_pais, pop_pais,
                    invalid_countries, Cluster, forecast >>
    /\ UNCHANGED << converter_vars, pdf_vars >>

RECURSIVE IdxMaxFrom(_, _, _, _)
IdxMaxFrom(frame, column_, k, best) ==
    IF k > Len(frame) THEN best
    ELSE IdxMaxFrom(frame, column_, k + 1,
            IF Val(column_[frame[k]]) > Val(column_[best]) THEN frame[k] ELSE best)

RECURSIVE IdxMaxLastFrom(_, _, _, _)
IdxMaxLastFrom(frame, column_, k, best) ==
    IF k > Len(frame) THEN best
    ELSE IdxMaxLastFrom(frame, column_, k + 1,
            IF Val(column_[frame[k]]) >= Val(column_[best]) THEN frame[k] ELSE best)

idxmax_last(frame, column_) == IdxMaxLastFrom(frame, column_, 2, frame[1])

(* Series.idxmax(): the index label of the first occurrence of the maximum *)
idxmax(frame, column_) == IdxMaxFrom(frame, column_, 2, frame[1])

(* frame.loc[frame["Country"] == label, name].values[0] *)
FirstOfCountry(table, frame, label, name) ==
    LET hits == SelectSeq(frame, LAMBDA i : Cell(table, i, <<"Country">>) = label)
    IN  Cell(table, hits[1], name)

Rank ==
    /\ pc = "rank"
    /\ IF dados_recentes = <<>>
       THEN \* idxmax of an empty Series raises ValueError
            /\ exception' = <<"ValueError", "idxmax">>
            /\ pc' = "crashed"
            /\ UNCHANGED << pais_ideal, pib_pais, pop_pais >>
       ELSE LET best == Cell(imoveis, idxmax(dados_recentes, Score), <<"Country">>)
            IN  /\ pais_ideal' = best
                /\ pib_pais' = FirstOfCountry(imoveis, dados_recentes, best,
                                              <<"GDP Growth (%)">>)
                /\ pop_pais' = FirstOfCountry(imoveis, dados_recentes, best,
                                              <<"Population Growth (%)">>)
                /\ pc' = "validate"
                /\ UNCHANGED exception
    /\ UNCHANGED << csv, imoveis, shown, ano_mais_recente, dados_recentes, Score,
                    invalid_countries, Cluster, forecast >>
    /\ UNCHANGED << converter_vars, pdf_vars >>

----------------------------------------------------------------------------
(* Country-name validation: lines 81-89 *)

(* the names pycountry.countries knows *)
KnownCountries == { <<"Brazil">>, <<"Chile">> }

(* pycountry.countries.get(name=country) finds an entry *)
Recognized(country) == country \in KnownCountries

(* map_data["Country"].str.strip() *)
MapCountries(table, frame) ==
    [k \in DOMAIN frame |-> strip(Cell(table, frame[k], <<"Country">>))]

InvalidCountries(table, frame) ==
    SelectSeq(MapCountries(table, frame), LAMBDA country : ~Recognized(country))

ValidateCountries ==
    /\ pc = "validate"
    /\ invalid_countries' = InvalidCountries(imoveis, dados_recentes)
    /\ shown' = IF InvalidCountries(imoveis, dados_recentes) # <<>>
                THEN Append(shown, Message("warning", "paises nao reconhecidos",
                                           InvalidCountries(imoveis, dados_recentes)))
                ELSE shown
    /\ pc' = "cluster"
    /\ UNCHANGED << csv, imoveis, exception, ano_mais_recente, dados_recentes,
                    Score, pais_ideal, pib_pais, pop_pais, Cluster, forecast >>
    /\ UNCHANGED << converter_vars, pdf_vars >>

----------------------------------------------------------------------------
(* Clustering and forecast: lines 123-128 and 153-164 *)

n_clusters == 3

(* KMeans(n_clusters).fit_predict(X) accepts X: n_samples >= n_clusters *)
KMeansAccepts(n_samples) == n_samples >= n_clusters

ClusterStep ==
    /\ pc = "cluster"
    /\ IF KMeansAccepts(Len(dados_recentes))
       THEN \* every Snapshot row receives a cluster id in 0..n_clusters-1;
            \* only the rows that received one are recorded
            /\ Cluster' = Range(dados_recentes)
            /\ pc' = "forecast"
            /\ UNCHANGED exception
       ELSE /\ exception' = <<"ValueError", "KMeans.fit_predict">>
            /\ pc' = "crashed"
            /\ UNCHANGED Cluster
    /\ UNCHANGED << csv, imoveis, shown, ano_mais_recente, dados_recentes, Score,
                    pais_ideal, pib_pais, pop_pais, invalid_countries, forecast >>
    /\ UNCHANGED << converter_vars, pdf_vars >>

(* test_size = 0.2 *)
test_size == [num |-> 1, den |-> 5]

(* train_test_split: n_test = ceil(test_size * n_samples) *)
n_test(n_samples) ==
    (n_samples * test_size.num + test_size.den - 1) \div test_size.den

(* LinearRegression.fit(X, y) rejects NaN in X (Year) and in y (GDP) *)
FitAccepts(table, train) ==
    \A i \in train :
        /\ ~IsNull(Cell(table, i, <<"Year">>))
        /\ ~IsNull(Cell(table, i, <<"GDP Growth (%)">>))

Forecast ==
    /\ pc = "forecast"
    /\ LET n == Len(imoveis.rows)
       IN  IF n - n_test(n) = 0
           THEN \* train_test_split raises: the train set would be empty
                /\ exception' = <<"ValueError", "train_test_split">>
                /\ pc' = "crashed"
                /\ UNCHANGED forecast
           ELSE \* which rows the seeded shuffle holds out is not modelled:
                \* any test set of the computed size
                \E test \in SUBSET Index(imoveis) :
                    /\ Cardinality(test) = n_test(n)
                    /\ IF FitAccepts(imoveis, Index(imoveis) \ test)
                       THEN /\ forecast' = [test |-> test]
                            /\ pc' = "done"
                            /\ UNCHANGED exception
                       ELSE /\ exception' = <<"ValueError", "LinearRegression.fit">>
                            /\ pc' = "crashed"
                            /\ UNCHANGED forecast
    /\ UNCHANGED << csv, imoveis, shown, ano_mais_recente, dados_recentes, Score,
                    pais_ideal, pib_pais, pop_pais, invalid_countries, Cluster >>
    /\ UNCHANGED << converter_vars, pdf_vars >>

----------------------------------------------------------------------------
(* The files the run is started on *)

Rec(c, y, g, p) == [c |-> c, y |-> y, g |-> g, p |-> p]

(* a valid label twice with different values, a padded valid label, an
   unrecognized label whose values tie with the first row, an older year,
   a second valid label *)
CoreRecords ==
    { Rec(<<"Brazil">>,      <<2024>>, <<3>>, <<1>>),
      Rec(<<"Brazil">>,      <<2024>>, <<1>>, <<2>>),
      Rec(<<"Brasil">>,      <<2024>>, <<3>>, <<1>>),
      Rec(<<"Brazil", " ">>, <<2024>>, <<1>>, <<1>>),
      Rec(<<"Brazil">>,      <<2023>>, <<3>>, <<1>>),
      Rec(<<"Chile">>,       <<2024>>, <<2>>, <<3>>) }

(* one missing value each: Year, GDP (either year), Population *)
NullRecords ==
    { Rec(<<"Brazil">>, NaN,      <<1>>, <<1>>),
      Rec(<<"Brazil">>, <<2024>>, NaN,   <<1>>),
      Rec(<<"Brasil">>, <<2023>>, NaN,   <<1>>),
      Rec(<<"Brazil">>, <<2024>>, <<1>>, NaN) }

Records == CoreRecords \cup NullRecords

Pad(name) == <<" ">> \o name \o <<" ">>

(* the header line: the required columns but `missing`; when `messy`, every
   label padded with blanks and one more column at the end *)
Header(missing, messy) ==
    LET kept == SelectSeq(target_columns, LAMBDA col : col \notin missing)
    IN  IF messy
        THEN [j \in DOMAIN kept |-> Pad(kept[j])] \o << <<"Region">> >>
        ELSE kept

RowFor(header, rec) ==
    [j \in DOMAIN header |->
        LET name == strip(header[j])
        IN  CASE name = <<"Country">> -> rec.c
              [] name = <<"Year">> -> rec.y
              [] name = <<"GDP Growth (%)">> -> rec.g
              [] name = <<"Population Growth (%)">> -> rec.p
              [] OTHER -> <<"n/a">>]

File(header, recs) ==
    [columns |-> header, rows |-> [i \in DOMAIN recs |-> RowFor(header, recs[i])]]

RECURSIVE SeqsOver(_, _)
(* the sequences over S of length at most n *)
SeqsOver(S, n) ==
    IF n = 0 THEN { <<>> }
    ELSE LET shorter == SeqsOver(S, n - 1)
         IN  shorter \cup { Append(q, r) : q \in shorter, r \in S }

(* a plain header over every dataset, a messy one over the complete records *)
CompleteFiles ==
    { File(Header({}, FALSE), recs) : recs \in SeqsOver(Records, MaxRows) }
    \cup { File(Header({}, TRUE), recs) : recs \in SeqsOver(CoreRecords, MaxRows) }

IncompleteFiles ==
    { File(Header(missing, messy), recs) :
        missing \in (SUBSET Range(target_columns)) \ {{}},
        messy \in BOOLEAN,
        recs \in {<<>>} \cup { <<r>> : r \in Records } }

Files == {NoFile} \cup CompleteFiles \cup IncompleteFiles

----------------------------------------------------------------------------
(* Currency converter: lines 253-289 *)

(* moedas = ["BRL", "USD", "EUR"] *)
moedas == <<"BRL", "USD", "EUR">>

Fraction(num, den) == [num |-> num, den |-> den]

(* the return value 1 *)
One == Fraction(1, 1)

(* what the remote service can answer.  A JSON value of the rates mapping is
   absent, null, a string or a number (in tenths) *)
Absent == [t |-> "absent"]

JsonNull == [t |-> "null"]

JsonString == [t |-> "str"]

JsonNumber(v) == [t |-> "num", v |-> v]

RateValues == { Absent, JsonNull, JsonString } \cup { JsonNumber(v) : v \in {0, 9, 10, 50} }

(* the service quotes against USD: USD is 1 when it is listed at all *)
RateTables ==
    { r \in [Range(moedas) -> RateValues] : r["USD"] \in { Absent, JsonNumber(10) } }

Responses ==
    { [kind |-> "raises"],                      \* requests.get raises
      [kind |-> "not json"],                     \* response.json() raises
      [kind |-> "null"],                         \* the body is null
      [kind |-> "array"],                        \* the body is []
      [kind |-> "object"],                       \* an object without "rates"
      [kind |-> "rates null"] }                  \* {"rates": null}
    \cup { [kind |-> "rates", rates |-> r] : r \in RateTables }

(* data["rates"].get(code, None) *)
RatesGet(rates, code) == IF rates[code] = Absent THEN JsonNull ELSE rates[code]

(* truth value of a rate: None, 0 and 0.0 are false *)
Truthy(x) == x.t = "str" \/ (x.t = "num" /\ x.v # 0)

Outcome(rate, error) == [taxa |-> rate, errors |-> error, requests |-> 1]

get_exchange_rate_inverted(resp, origem, destino) ==
    IF resp.kind = "rates"
       /\ RatesGet(resp.rates, origem).t = "num" /\ RatesGet(resp.rates, origem).v # 0
       /\ RatesGet(resp.rates, destino).t = "num" /\ RatesGet(resp.rates, destino).v # 0
    THEN Outcome(Fraction(RatesGet(resp.rates, origem).v,
                          RatesGet(resp.rates, destino).v), 0)
    ELSE Outcome(One, IF resp.kind \in {"raises", "not json", "null", "rates null"}
                         \/ (resp.kind = "rates"
                             /\ Truthy(RatesGet(resp.rates, origem))
                             /\ Truthy(RatesGet(resp.rates, destino)))
                      THEN 1 ELSE 0)

get_exchange_rate_silent(resp, origem, destino) ==
    IF resp.kind = "rates"
       /\ RatesGet(resp.rates, origem).t = "num" /\ RatesGet(resp.rates, origem).v # 0
       /\ RatesGet(resp.rates, destino).t = "num" /\ RatesGet(resp.rates, destino).v # 0
    THEN Outcome(Fraction(RatesGet(resp.rates, destino).v,
                          RatesGet(resp.rates, origem).v), 0)
    ELSE Outcome(One, 0)

(* one requests.get; every exception raised inside the try block is caught,
   reported in the sidebar and answered with 1 *)
get_exchange_rate(resp, origem, destino) ==
    CASE resp.kind \in {"raises", "not json"} ->
            Outcome(One, 1)                      \* except branch
      [] resp.kind = "null" ->
            Outcome(One, 1)                      \* "rates" not in None: TypeError
      [] resp.kind \in {"array", "object"} ->
            Outcome(One, 0)                      \* "rates" not in data
      [] resp.kind = "rates null" ->
            Outcome(One, 1)                      \* None.get: AttributeError
      [] resp.kind = "rates" ->
            LET taxa_origem == RatesGet(resp.rates, origem)
                taxa_destino == RatesGet(resp.rates, destino)
            IN  IF Truthy(taxa_origem) /\ Truthy(taxa_destino)
                THEN IF taxa_origem.t = "num" /\ taxa_destino.t = "num"
                     THEN Outcome(Fraction(taxa_destino.v, taxa_origem.v), 0)
                     ELSE Outcome(One, 1)        \* str / number: TypeError
                ELSE Outcome(One, 0)

(* f"{x:.2f}": the nearest hundredth, here the nearest cent *)
Format2f(x) == << (2 * x.num + x.den) \div (2 * x.den) >>

(* the amounts typed into the number_input (min_value=0.0), in cents *)
Amounts == { 0, 1, 250, 10000 }

SelectOrigem ==
    /\ pc = "done"
    /\ \E m \in Range(moedas) : m # moeda_origem /\ moeda_origem' = m
    \* a run without the click: nothing of a conversion is computed or shown
    /\ response' = [kind |-> "none"]
    /\ taxa' = One
    /\ valor_convertido' = Fraction(0, 1)
    /\ written' = <<>>
    /\ sidebar_errors' = 0
    /\ UNCHANGED << moeda_destino, valor, lookups, clicks >>
    /\ UNCHANGED << pipeline_vars, pdf_vars >>

SelectDestino ==
    /\ pc = "done"
    /\ \E m \in Range(moedas) : m # moeda_destino /\ moeda_destino' = m
    \* a run without the click: nothing of a conversion is computed or shown
    /\ response' = [kind |-> "none"]
    /\ taxa' = One
    /\ valor_convertido' = Fraction(0, 1)
    /\ written' = <<>>
    /\ sidebar_errors' = 0
    /\ UNCHANGED << moeda_origem, valor, lookups, clicks >>
    /\ UNCHANGED << pipeline_vars, pdf_vars >>

EnterValor ==
    /\ pc = "done"
    /\ \E v \in Amounts : v # valor /\ valor' = v
    \* a run without the click: nothing of a conversion is computed or shown
    /\ response' = [kind |-> "none"]
    /\ taxa' = One
    /\ valor_convertido' = Fraction(0, 1)
    /\ written' = <<>>
    /\ sidebar_errors' = 0
    /\ UNCHANGED << moeda_origem, moeda_destino, lookups, clicks >>
    /\ UNCHANGED << pipeline_vars, pdf_vars >>

(* the run in which st.sidebar.button("Converter") is True *)
Converter ==
    /\ pc = "done"
    /\ clicks < MaxClicks
    /\ \E resp \in Responses :
          LET got == get_exchange_rate(resp, moeda_origem, moeda_destino)
              converted == Fraction(valor * got.taxa.num, got.taxa.den)
          IN  /\ response' = resp
              /\ taxa' = got.taxa
              /\ lookups' = lookups + got.requests
              /\ sidebar_errors' = got.errors
              /\ valor_convertido' = converted
              /\ written' = Format2f(converted)
    /\ clicks' = clicks + 1
    /\ UNCHANGED << moeda_origem, moeda_destino, valor >>
    /\ UNCHANGED << pipeline_vars, pdf_vars >>

----------------------------------------------------------------------------
(* generate_pdf: lines 181-213 *)

PageTop == 750

HeadingLine == 700

FirstLine == 680

LineStep == 20

Margin == 50

CaptionDrop == 40

ImageDrop == 150

Drawing(what, pg, y) == [what |-> what, page |-> pg, y |-> y]

(* lines 183-194: the two headings, then the cursor at the first line *)
PdfBegin ==
    /\ pdf_pc = "begin"
    /\ drawn' = drawn \cup { Drawing("title", page, PageTop),
                             Drawing("heading", page, HeadingLine) }
    /\ y_position' = FirstLine
    /\ pdf_pc' = "loop"
    /\ UNCHANGED << n_columns, column, page >>
    /\ UNCHANGED << pipeline_vars, converter_vars >>

(* lines 195-201: one iteration of the loop over summary's columns *)
PdfColumn ==
    /\ pdf_pc = "loop"
    /\ column < n_columns
    /\ drawn' = drawn \cup { Drawing("line", page, y_position) }
    /\ column' = column + 1
    /\ IF y_position - LineStep < Margin
       THEN /\ page' = page + 1        \* pdf.showPage()
            /\ y_position' = PageTop
       ELSE /\ y_position' = y_position - LineStep
            /\ UNCHANGED page
    /\ UNCHANGED << n_columns, pdf_pc >>
    /\ UNCHANGED << pipeline_vars, converter_vars >>

(* lines 204-213: the caption, the image, save *)
PdfChart ==
    /\ pdf_pc = "loop"
    /\ column = n_columns
    /\ drawn' = drawn \cup { Drawing("caption", page, y_position - CaptionDrop),
                             Drawing("image", page, y_position - ImageDrop) }
    /\ pdf_pc' = "returned"
    /\ UNCHANGED << n_columns, column, y_position, page >>
    /\ UNCHANGED << pipeline_vars, converter_vars >>

----------------------------------------------------------------------------
(* The script run *)

InitPipeline ==
    /\ pc = "load"
    /\ imoveis = [columns |-> <<>>, rows |-> <<>>]
    /\ shown = <<>>
    /\ exception = <<>>
    /\ ano_mais_recente = NaN
    /\ dados_recentes = <<>>
    /\ Score = <<>>
    /\ pais_ideal = <<>>
    /\ pib_pais = NaN
    /\ pop_pais = NaN
    /\ invalid_countries = <<>>
    /\ Cluster = {}
    /\ forecast = <<>>

ConverterIdle ==
    /\ moeda_origem = "BRL"
    /\ moeda_destino = "BRL"
    /\ valor = 0
    /\ response = [kind |-> "none"]
    /\ taxa = [num |-> 1, den |-> 1]
    /\ valor_convertido = [num |-> 0, den |-> 1]
    /\ written = <<>>
    /\ sidebar_errors = 0
    /\ lookups = 0
    /\ clicks = 0

(* the state in which a run on `file` reaches the end of the script *)
RunCompleted(file) ==
    LET table == [columns |-> StripColumns(file.columns), rows |-> file.rows]
        frame == FilterByYear(table, YearMax(table))
        scores == [i \in Range(frame) |->
                    WeightedSum(Cell(table, i, <<"GDP Growth (%)">>),
                                Cell(table, i, <<"Population Growth (%)">>))]
        best == Cell(table, idxmax(frame, scores), <<"Country">>)
    IN  /\ csv = file
        /\ pc = "done"
        /\ imoveis = table
        /\ exception = <<>>
        /\ ano_mais_recente = YearMax(table)
        /\ dados_recentes = frame
        /\ Score = scores
        /\ pais_ideal = best
        /\ pib_pais = FirstOfCountry(table, frame, best, <<"GDP Growth (%)">>)
        /\ pop_pais = FirstOfCountry(table, frame, best, <<"Population Growth (%)">>)
        /\ invalid_countries = InvalidCountries(table, frame)
        /\ shown = IF InvalidCountries(table, frame) # <<>>
                   THEN << Message("warning", "paises nao reconhecidos",
                                   InvalidCountries(table, frame)) >>
                   ELSE <<>>
        /\ Cluster = Range(frame)
        /\ forecast = [test |-> {1}]

SampleFile ==
    File(Header({}, FALSE),
         << Rec(<<"Brazil">>, <<2024>>, <<3>>, <<1>>),
            Rec(<<"Chile">>,  <<2024>>, <<1>>, <<2>>),
            Rec(<<"Brasil">>, <<2024>>, <<1>>, <<1>>) >>)

PdfIdle ==
    /\ n_columns = 0
    /\ column = 0
    /\ y_position = 0
    /\ page = 1
    /\ drawn = {}
    /\ pdf_pc = "idle"

Init ==
    /\ csv \in Files
    /\ InitPipeline
    /\ ConverterIdle
    /\ PdfIdle

Next ==
    \/ Load
    \/ SelectSnapshot
    \/ CheckNulls
    \/ ComputeScore
    \/ Rank
    \/ ValidateCountries
    \/ ClusterStep
    \/ Forecast

Spec == Init /\ [][Next]_vars

(* the converter widget, on a run that reached the end of the script *)
InitConverter ==
    /\ RunCompleted(SampleFile)
    /\ ConverterIdle
    /\ PdfIdle

NextConverter ==
    \/ SelectOrigem
    \/ SelectDestino
    \/ EnterValor
    \/ Converter

SpecConverter == InitConverter /\ [][NextConverter]_vars

(* one call of generate_pdf on a dataframe whose summary has n_columns columns *)
InitPdf ==
    /\ RunCompleted(SampleFile)
    /\ ConverterIdle
    /\ n_columns \in 0..MaxSummaryColumns
    /\ column = 0
    /\ y_position = 0
    /\ page = 1
    /\ drawn = {}
    /\ pdf_pc = "begin"

NextPdf ==
    \/ PdfBegin
    \/ PdfColumn
    \/ PdfChart

SpecPdf == InitPdf /\ [][NextPdf]_vars

----------------------------------------------------------------------------
(* What the properties speak of, stated on the file and the loaded table *)

(* the required columns no trimmed label of the file equals *)
RequiredMissing ==
    { col \in Range(target_columns) :
        \A j \in DOMAIN csv.columns : strip(csv.columns[j]) # col }

(* the table was loaded and has the four required columns *)
Loaded == pc # "load" /\ csv # NoFile /\ RequiredMissing = {}

YearOf(i) == Cell(imoveis, i, <<"Year">>)

GdpOf(i) == Cell(imoveis, i, <<"GDP Growth (%)">>)

PopOf(i) == Cell(imoveis, i, <<"Population Growth (%)">>)

CountryOf(i) == Cell(imoveis, i, <<"Country">>)

(* the rows whose Year is the greatest Year of the Dataset *)
SnapshotRows ==
    LET years == [i \in Index(imoveis) |-> YearOf(i)]
        dated == { i \in Index(imoveis) : ~IsNull(years[i]) }
    IN  { i \in dated : \A j \in dated : Val(years[j]) <= Val(years[i]) }

SnapshotHasNull == \E i \in SnapshotRows : IsNull(GdpOf(i)) \/ IsNull(PopOf(i))

Scored == pc \in {"rank", "validate", "cluster", "forecast", "done", "crashed"}

Ranked ==
    \/ pc \in {"validate", "cluster", "forecast", "done"}
    \/ pc = "crashed" /\ exception[2] # "idxmax"

Validated ==
    \/ pc \in {"cluster", "forecast", "done"}
    \/ pc = "crashed" /\ exception[2] # "idxmax"

(* position k of the Snapshot holds the first row of maximal Score *)
FirstMaximum(k) ==
    /\ \A j \in DOMAIN dados_recentes :
          Val(Score[dados_recentes[j]]) <= Val(Score[dados_recentes[k]])
    /\ \A j \in 1..(k - 1) :
          Val(Score[dados_recentes[j]]) < Val(Score[dados_recentes[k]])

Occurrences(seq, x) == Cardinality({ k \in DOMAIN seq : seq[k] = x })

CountryWarnings ==
    { k \in DOMAIN shown :
        shown[k].kind = "warning" /\ shown[k].text = "paises nao reconhecidos" }

----------------------------------------------------------------------------
(* Properties of the script run, under Spec *)

(* C1: when the trimmed labels of the loaded table lack a required column,
   the run is stopped at the load step, before any snapshot is selected, and
   the one error shown lists exactly the required columns that are missing,
   each once *)
C1_MissingColumnsHalt ==
    (pc # "load" /\ csv # NoFile /\ RequiredMissing # {}) =>
        /\ pc = "stopped"
        /\ Len(shown) = 1
        /\ shown[1].kind = "error"
        /\ shown[1].text = "colunas ausentes no dataset"
        /\ Range(shown[1].list) = RequiredMissing
        /\ Len(shown[1].list) = Cardinality(RequiredMissing)
        /\ IsNull(ano_mais_recente)
        /\ dados_recentes = <<>>
        /\ DOMAIN Score = {}

(* a padded header that keeps Country and Population and lacks the other two *)
C1_Witness ==
    /\ pc = "stopped"
    /\ csv # NoFile
    /\ RequiredMissing = { <<"Year">>, <<"GDP Growth (%)">> }
    /\ csv.columns[1] = Pad(<<"Country">>)
    /\ Len(shown) = 1

(* C2: when a Snapshot row has a null GDP Growth or Population Growth, no
   Score is computed and no later step runs: the run gets no further than the
   null check, and stops there with the warning, the row is not dropped *)
C2_NullInSnapshotHalts ==
    (Loaded /\ SnapshotHasNull) =>
        /\ pc \in {"snapshot", "nulls", "stopped"}
        /\ DOMAIN Score = {}
        /\ pais_ideal = <<>>
        /\ invalid_countries = <<>>
        /\ Cluster = {}
        /\ forecast = <<>>
        /\ exception = <<>>
        /\ (pc = "stopped" =>
              /\ Len(shown) = 1
              /\ shown[1].kind = "warning"
              /\ shown[1].text = "valores nulos nas colunas usadas"
              /\ Range(dados_recentes) = SnapshotRows)

(* the run stopped on a Snapshot of three rows with a single null, in the
   Population column *)
C2_Witness ==
    /\ Loaded
    /\ pc = "stopped"
    /\ Len(dados_recentes) = 3
    /\ Cardinality({ i \in SnapshotRows : IsNull(PopOf(i)) }) = 1
    /\ \A i \in SnapshotRows : ~IsNull(GdpOf(i))

(* C3: after the scoring step the Snapshot holds exactly the rows whose Year
   is the greatest Year, each once; exactly these rows have a Score, and it
   is 0.7 x GDP Growth + 0.3 x Population Growth (here in tenths) *)
C3_ScoreIsWeightedSum ==
    Scored =>
        LET snapshot == SnapshotRows
        IN  /\ Range(dados_recentes) = snapshot
            /\ Len(dados_recentes) = Cardinality(snapshot)
            /\ DOMAIN Score = snapshot
            /\ \A i \in snapshot :
                  /\ ~IsNull(Score[i])
                  /\ Val(Score[i]) = 7 * Val(GdpOf(i)) + 3 * Val(PopOf(i))

(* scored: an older row first, then two Snapshot rows of different Score *)
C3_Witness ==
    /\ pc = "rank"
    /\ Len(imoveis.rows) = 3
    /\ dados_recentes = <<2, 3>>
    /\ Score[2] # Score[3]
    /\ ~IsNull(YearOf(1))

(* C4: the best country is the Country of the first Snapshot row, in
   iteration order, whose Score is the maximum over the Snapshot *)
C4_BestIsFirstMaximum ==
    Ranked =>
        \E k \in DOMAIN dados_recentes :
            /\ FirstMaximum(k)
            /\ pais_ideal = CountryOf(dados_recentes[k])

(* ranked: the second and third rows tie at the maximum under different labels *)
C4_Witness ==
    /\ pc = "validate"
    /\ Len(dados_recentes) = 3
    /\ FirstMaximum(2)
    /\ Score[dados_recentes[3]] = Score[dados_recentes[2]]
    /\ CountryOf(dados_recentes[3]) # CountryOf(dados_recentes[2])
    /\ pais_ideal = CountryOf(dados_recentes[2])

(* C5, as claimed: a recognized trimmed label contributes no entry and every
   distinct unrecognized trimmed label exactly one; the warning is shown
   exactly when the list is not empty; validation never halts the run *)
C5_OneEntryPerName ==
    /\ Validated =>
          /\ \A k \in DOMAIN dados_recentes :
                LET label == strip(CountryOf(dados_recentes[k]))
                IN  Occurrences(invalid_countries, label)
                        = IF label \in KnownCountries THEN 0 ELSE 1
          /\ (CountryWarnings # {}) <=> (invalid_countries # <<>>)
    /\ pc = "stopped" => (invalid_countries = <<>> /\ CountryWarnings = {})

(* what lines 83-86 do instead: every Snapshot row whose trimmed label is not
   recognized contributes one entry, in row order, so a label carried by
   several rows is repeated; a recognized label contributes none *)
EntryPerUnrecognizedRow ==
    Validated =>
        /\ \A k \in DOMAIN dados_recentes :
              LET label == strip(CountryOf(dados_recentes[k]))
              IN  Occurrences(invalid_countries, label)
                      = IF label \in KnownCountries THEN 0
                        ELSE Cardinality({ j \in DOMAIN dados_recentes :
                                  strip(CountryOf(dados_recentes[j])) = label })
        /\ Cardinality(CountryWarnings) = IF invalid_countries # <<>> THEN 1 ELSE 0
        /\ \A k \in CountryWarnings : shown[k].list = invalid_countries

(* C8, as claimed: a Dataset with the four required columns and no null in
   the analysis columns of its Snapshot is never aborted: the run neither
   stops nor ends in an uncaught exception *)
C8_OnlyTwoFatalConditions ==
    (Loaded /\ ~SnapshotHasNull) => pc \notin {"stopped", "crashed"}

(* C9, as claimed: the two component values of the summary are those of the
   Snapshot row that attained the maximum Score *)
C9_ComponentsOfWinningRow ==
    Ranked =>
        \E k \in DOMAIN dados_recentes :
            /\ FirstMaximum(k)
            /\ pais_ideal = CountryOf(dados_recentes[k])
            /\ pib_pais = GdpOf(dados_recentes[k])
            /\ pop_pais = PopOf(dados_recentes[k])

----------------------------------------------------------------------------
(* Properties of the converter, under SpecConverter *)

(* the lookup succeeded and lists a non-zero number for `code` *)
Usable(code) ==
    /\ response.kind = "rates"
    /\ response.rates[code].t = "num"
    /\ response.rates[code].v # 0

RateOf(code) == response.rates[code].v

Converted == written # <<>>

(* the lookup ended in a raised exception: the request, the JSON decoding, or
   the use of a body of the wrong shape (null body, null rates, a string
   where a number is divided) *)
Threw ==
    \/ response.kind \in {"raises", "not json", "null", "rates null"}
    \/ /\ response.kind = "rates"
       /\ \A code \in {moeda_origem, moeda_destino} :
             response.rates[code].t = "str" \/ Usable(code)
       /\ \E code \in {moeda_origem, moeda_destino} : response.rates[code].t = "str"

(* C6: when the lookup succeeds with a non-zero rate for both selected codes,
   the converted value is amount x rate[destination] / rate[source] and is
   shown rounded to the cent; the same code twice gives the amount; rates
   {USD:1, EUR:0.9, BRL:5.0} turn 100 BRL into 18.00 EUR *)
C6_ConvertedByRateRatio ==
    (Converted /\ Usable(moeda_origem) /\ Usable(moeda_destino)) =>
        /\ valor_convertido.num * RateOf(moeda_origem)
              = valor * RateOf(moeda_destino) * valor_convertido.den
        /\ 2 * written[1] * RateOf(moeda_origem)
              <= 2 * valor * RateOf(moeda_destino) + RateOf(moeda_origem)
        /\ 2 * written[1] * RateOf(moeda_origem)
              >= 2 * valor * RateOf(moeda_destino) - RateOf(moeda_origem)
        /\ (moeda_origem = moeda_destino => written = << valor >>)
        /\ ( ( /\ RateOf(moeda_origem) = 50
               /\ RateOf(moeda_destino) = 9
               /\ valor = 10000 ) => written = << 1800 >> )

(* 100 BRL to EUR under rates {USD:1, EUR:0.9, BRL:5.0} shows 18.00 *)
C6_Witness ==
    /\ Converted
    /\ moeda_origem = "BRL"
    /\ moeda_destino = "EUR"
    /\ valor = 10000
    /\ response.kind = "rates"
    /\ response.rates = [c \in Range(moedas) |->
                            CASE c = "USD" -> JsonNumber(10)
                              [] c = "EUR" -> JsonNumber(9)
                              [] c = "BRL" -> JsonNumber(50)]
    /\ written = << 1800 >>

(* C7: whenever the lookup fails, get_exchange_rate returns 1, the value shown
   is the amount unchanged and the run goes on; the sidebar error is shown
   exactly when the failure was a raised exception; every Converter click
   makes exactly one request *)
C7_IdentityFallback ==
    /\ lookups = clicks
    /\ (Converted /\ ~(Usable(moeda_origem) /\ Usable(moeda_destino))) =>
          /\ taxa = One
          /\ valor_convertido = Fraction(valor, 1)
          /\ written = << valor >>
          /\ pc = "done"
          /\ exception = <<>>
          /\ sidebar_errors = IF Threw THEN 1 ELSE 0

(* the second click: the request raises, 2.50 is shown unchanged, one notice *)
C7_Witness ==
    /\ Converted
    /\ response.kind = "raises"
    /\ moeda_origem = "USD"
    /\ moeda_destino = "BRL"
    /\ valor = 250
    /\ written = << 250 >>
    /\ sidebar_errors = 1
    /\ clicks = 2
    /\ lookups = 2

----------------------------------------------------------------------------
(* Properties of generate_pdf, under SpecPdf *)

(* C10, as claimed: every summary line is drawn between 50 and 750, a page is
   started exactly when the cursor less 20 falls below 50, and the caption
   and the image after the loop are drawn at non-negative positions *)
C10_DrawnOnThePage ==
    /\ \A d \in drawn : d.what = "line" => (d.y >= 50 /\ d.y <= 750)
    /\ page - 1 = Cardinality({ d \in drawn : d.what = "line" /\ d.y - 20 < 50 })
    /\ \A d \in drawn : d.what \in {"caption", "image"} => d.y >= 0
    /\ y_position <= 750

====
